---- MODULE Spec2Model ----
(***************************************************************************)
(* Local record store of the workflow CLI: story lookup and load           *)
(* (LocalGitHubService.fetchStory / listStories), the checklist decoder    *)
(* (extractTasksFromContent), the status deriver (calculateStoryStatus)    *)
(* and the merge-and-write of add-tasks (updateStoryWithTasks) and         *)
(* update-task (updateStoryFile).                                          *)
(*                                                                         *)
(* Text is modelled byte for byte: a file's content is a sequence of       *)
(* one-character strings, "\n" included; a line is such a sequence         *)
(* without "\n".  The regular expressions of the source are operators on   *)
(* these sequences.                                                        *)
(***************************************************************************)
EXTENDS Integers, Sequences, FiniteSets, TLC

\* ------------------------------------------------------------------------
\* Characters and strings
\* ------------------------------------------------------------------------

NL == "\n"

\* \s of the regular expressions and of String.prototype.trim, over the
\* characters that occur inside a line of the modelled documents
IsSpace(c) == c \in {" ", "\t"}

IsDigit(c) == c \in {"0", "1", "2", "3", "4", "5", "6", "7", "8", "9"}

DigitVal(c) ==
  CASE c = "0" -> 0 [] c = "1" -> 1 [] c = "2" -> 2 [] c = "3" -> 3
    [] c = "4" -> 4 [] c = "5" -> 5 [] c = "6" -> 6 [] c = "7" -> 7
    [] c = "8" -> 8 [] c = "9" -> 9

DigitChar(n) ==
  CASE n = 0 -> "0" [] n = 1 -> "1" [] n = 2 -> "2" [] n = 3 -> "3"
    [] n = 4 -> "4" [] n = 5 -> "5" [] n = 6 -> "6" [] n = 7 -> "7"
    [] n = 8 -> "8" [] n = 9 -> "9"

\* the i flag of the regular expressions, on the letters they name
Lower(c) ==
  CASE c = "T" -> "t" [] c = "A" -> "a" [] c = "S" -> "s" [] c = "K" -> "k"
    [] c = "X" -> "x" [] c = "L" -> "l" [] c = "B" -> "b" [] c = "E" -> "e"
    [] OTHER -> c

\* parseInt on a string of decimal digits
RECURSIVE ParseInt(_)
ParseInt(s) ==
  IF s = <<>> THEN 0
  ELSE 10 * ParseInt(SubSeq(s, 1, Len(s) - 1)) + DigitVal(s[Len(s)])

\* String(n) / `${n}` for a non-negative integer
RECURSIVE NatToStr(_)
NatToStr(n) ==
  IF n < 10 THEN <<DigitChar(n)>>
  ELSE NatToStr(n \div 10) \o <<DigitChar(n % 10)>>

\* s.startsWith(p) at offset i (1-based): p occurs in s at position i
OccursAt(s, p, i) ==
  /\ i >= 1
  /\ i + Len(p) - 1 <= Len(s)
  /\ \A k \in 1..Len(p) : s[i + k - 1] = p[k]

\* String.prototype.includes
Includes(s, p) == \E i \in 1..(Len(s) + 1) : OccursAt(s, p, i)

\* String.prototype.endsWith
EndsWith(s, p) == Len(s) >= Len(p) /\ OccursAt(s, p, Len(s) - Len(p) + 1)

\* index of the first character at or after i that is not whitespace
\* (Len(s) + 1 when there is none): the greedy \s*
RECURSIVE SkipWs(_, _)
SkipWs(s, i) ==
  IF i <= Len(s) /\ IsSpace(s[i]) THEN SkipWs(s, i + 1) ELSE i

\* index of the first character at or after i that is not a digit: \d*
RECURSIVE SkipDigits(_, _)
SkipDigits(s, i) ==
  IF i <= Len(s) /\ IsDigit(s[i]) THEN SkipDigits(s, i + 1) ELSE i

\* String.prototype.trim
RECURSIVE TrimEnd(_)
TrimEnd(s) ==
  IF s # <<>> /\ IsSpace(s[Len(s)]) THEN TrimEnd(SubSeq(s, 1, Len(s) - 1))
  ELSE s

Trim(s) == TrimEnd(SubSeq(s, SkipWs(s, 1), Len(s)))

\* index of the first line break of s at or after i, 0 when there is none
NextNL(s, i) ==
  IF \E j \in i..Len(s) : s[j] = NL
  THEN CHOOSE j \in i..Len(s) : s[j] = NL /\ \A k \in i..(j - 1) : s[k] # NL
  ELSE 0

\* content.split("\n"): the pieces of s from index i on
RECURSIVE SplitFrom(_, _)
SplitFrom(s, i) ==
  LET j == NextNL(s, i)
  IN IF j = 0
     THEN <<SubSeq(s, i, Len(s))>>
     ELSE <<SubSeq(s, i, j - 1)>> \o SplitFrom(s, j + 1)

Split(s) == SplitFrom(s, 1)

\* lines.join("\n")
RECURSIVE Join(_)
Join(lines) ==
  IF lines = <<>> THEN <<>>
  ELSE IF Len(lines) = 1 THEN lines[1]
  ELSE lines[1] \o <<NL>> \o Join(Tail(lines))

\* ------------------------------------------------------------------------
\* TaskListCodec: decode (src/services/local-github.ts)
\* ------------------------------------------------------------------------

\* prNumber of a task that has none (undefined)
Undefined == -1

NoMatch == [ok |-> FALSE, check |-> " ", text |-> <<>>]

\* line.match(/^[\s]*-?\s*\[([x\s])\]\s*(.+)$/i): group 1 is the checkbox
\* character, group 2 the text.  \s* before (.+) is greedy and gives back one
\* character when nothing would be left for (.+).
TaskMatch(line) ==
  LET i1 == SkipWs(line, 1)
      i2 == IF i1 <= Len(line) /\ line[i1] = "-" THEN i1 + 1 ELSE i1
      i3 == SkipWs(line, i2)
      i4 == SkipWs(line, i3 + 3)
  IN IF /\ i3 + 2 <= Len(line)
        /\ line[i3] = "["
        /\ (Lower(line[i3 + 1]) = "x" \/ IsSpace(line[i3 + 1]))
        /\ line[i3 + 2] = "]"
     THEN IF i4 <= Len(line)
          THEN [ok |-> TRUE, check |-> line[i3 + 1],
                text |-> SubSeq(line, i4, Len(line))]
          ELSE IF i4 > i3 + 3
          THEN [ok |-> TRUE, check |-> line[i3 + 1],
                text |-> SubSeq(line, Len(line), Len(line))]
          ELSE NoMatch
     ELSE NoMatch

\* a match of \(#\d+\) starts at position p of s
PrAt(s, p) ==
  /\ OccursAt(s, <<"(", "#">>, p)
  /\ SkipDigits(s, p + 2) > p + 2
  /\ SkipDigits(s, p + 2) <= Len(s)
  /\ s[SkipDigits(s, p + 2)] = ")"

\* position of the leftmost match of \(#\d+\) in s, 0 when there is none
PrPos(s) ==
  IF \E p \in 1..Len(s) : PrAt(s, p)
  THEN CHOOSE p \in 1..Len(s) : PrAt(s, p) /\ \A q \in 1..(p - 1) : ~PrAt(s, q)
  ELSE 0

\* description.match(/\(#(\d+)\)/) then parseInt(prMatch[1])
PrNumberOf(s) ==
  IF PrPos(s) = 0 THEN Undefined
  ELSE ParseInt(SubSeq(s, PrPos(s) + 2, SkipDigits(s, PrPos(s) + 2) - 1))

\* start of the whitespace run that ends right before position p
RECURSIVE WsRunStart(_, _)
WsRunStart(s, p) ==
  IF p > 1 /\ IsSpace(s[p - 1]) THEN WsRunStart(s, p - 1) ELSE p

\* description.replace(/\s*\(#\d+\)/, "").trim(): the leftmost match (the
\* first (#digits) with the whitespace before it) is removed, once
StripPr(s) ==
  IF PrPos(s) = 0 THEN Trim(s)
  ELSE Trim(SubSeq(s, 1, WsRunStart(s, PrPos(s)) - 1)
            \o SubSeq(s, SkipDigits(s, PrPos(s) + 2) + 1, Len(s)))

\* a decode that numbers each task with the number of its line
RECURSIVE ExtractFromByLine(_, _, _)
ExtractFromByLine(lines, i, taskId) ==
  IF i > Len(lines) THEN <<>>
  ELSE LET m == TaskMatch(lines[i])
       IN IF m.ok
          THEN <<[id |-> NatToStr(i),
                  description |-> StripPr(m.text),
                  completed |-> (Lower(m.check) = "x"),
                  prNumber |-> PrNumberOf(m.text)]>>
               \o ExtractFromByLine(lines, i + 1, taskId + 1)
          ELSE ExtractFromByLine(lines, i + 1, taskId)

\* the loop of extractTasksFromContent over the lines from index i on, taskId
\* being the id of the next task
RECURSIVE ExtractFrom(_, _, _)
ExtractFrom(lines, i, taskId) ==
  IF i > Len(lines) THEN <<>>
  ELSE LET m == TaskMatch(lines[i])
       IN IF m.ok
          THEN <<[id |-> NatToStr(taskId),
                  description |-> StripPr(m.text),
                  completed |-> (Lower(m.check) = "x"),
                  prNumber |-> PrNumberOf(m.text)]>>
               \o ExtractFrom(lines, i + 1, taskId + 1)
          ELSE ExtractFrom(lines, i + 1, taskId)

extractTasksFromContent(content) == ExtractFrom(Split(content), 1, 1)

\* ------------------------------------------------------------------------
\* StatusDeriver
\* ------------------------------------------------------------------------

\* tasks.filter((t) => t.completed).length
CompletedCount(tasks) == Cardinality({i \in 1..Len(tasks) : tasks[i].completed})

\* calculateStoryStatus without its `completedTasks === 0` test
calculateStoryStatusNoZeroTest(tasks) ==
  IF Len(tasks) = 0 THEN "todo"
  ELSE IF CompletedCount(tasks) = Len(tasks) THEN "done"
  ELSE "in-progress"

\* LocalGitHubService.calculateStoryStatus
calculateStoryStatus(tasks) ==
  IF Len(tasks) = 0 THEN "todo"
  ELSE IF CompletedCount(tasks) = 0 THEN "todo"
  ELSE IF CompletedCount(tasks) = Len(tasks) THEN "done"
  ELSE "in-progress"

\* calculateStoryStatus of update-task.ts
calculateStoryStatusOfCounts(completed, total) ==
  IF total = 0 THEN "todo"
  ELSE IF completed = 0 THEN "todo"
  ELSE IF completed = total THEN "done"
  ELSE "in-progress"

\* ------------------------------------------------------------------------
\* TaskListCodec: merge (update-task.ts updateStoryFile, add-tasks.ts
\* updateStoryWithTasks)
\* ------------------------------------------------------------------------

\* line.match(/^##\s*Tasks/i)
IsTasksHeading(line) ==
  /\ OccursAt(line, <<"#", "#">>, 1)
  /\ LET j == SkipWs(line, 3)
     IN /\ j + 4 <= Len(line)
        /\ <<Lower(line[j]), Lower(line[j + 1]), Lower(line[j + 2]),
             Lower(line[j + 3]), Lower(line[j + 4])>> = <<"t", "a", "s", "k", "s">>

\* line.match(/^##/)
IsSectionHeading(line) == OccursAt(line, <<"#", "#">>, 1)

\* lines[i + 1].match(/^-\s*\[/)
IsDashBracket(line) ==
  /\ Len(line) >= 1
  /\ line[1] = "-"
  /\ SkipWs(line, 2) <= Len(line)
  /\ line[SkipWs(line, 2)] = "["

Marker ==
  <<"B", "r", "e", "a", "k", " ", "t", "h", "i", "s", " ",
    "s", "t", "o", "r", "y", " ", "d", "o", "w", "n">>

\* a merge that never recognises the developer note
IsDeveloperNoteNever(line) == FALSE

\* lines[i + 1].includes("Break this story down")
IsDeveloperNote(line) == Includes(line, Marker)

\* the loop "Skip existing task lines": the value of i when it ends
RECURSIVE SkipTaskLines(_, _)
SkipTaskLines(lines, i) ==
  IF i + 1 <= Len(lines)
     /\ (IsDashBracket(lines[i + 1]) \/ Trim(lines[i + 1]) = <<>>)
  THEN SkipTaskLines(lines, i + 1)
  ELSE i

\* `- ${checkbox} ${task.description}${prInfo}` of update-task and of the
\* existing tasks in add-tasks; prInfo is empty when prNumber is falsy
\* (undefined or 0)
FormatTask(task) ==
  <<"-", " ", "[", (IF task.completed THEN "x" ELSE " "), "]", " ">>
  \o task.description
  \o (IF task.prNumber # Undefined /\ task.prNumber # 0
      THEN <<" ", "(", "#">> \o NatToStr(task.prNumber) \o <<")">>
      ELSE <<>>)

\* `- ${checkbox} ${task.description}` of the new tasks in add-tasks
FormatNewTask(task) ==
  <<"-", " ", "[", (IF task.completed THEN "x" ELSE " "), "]", " ">>
  \o task.description

FormatTasks(tasks) == [k \in 1..Len(tasks) |-> FormatTask(tasks[k])]

FormatNewTasks(tasks) == [k \in 1..Len(tasks) |-> FormatNewTask(tasks[k])]

\* the lines update-task pushes under the heading
UpdateBlock(tasks) == <<<<>>>> \o FormatTasks(tasks)

\* the lines of add-tasks without the blank line pushed before the new tasks
AddBlockNoSeparator(tasks, newTasks) ==
  (IF Len(tasks) > 0 THEN <<<<>>>> \o FormatTasks(tasks) ELSE <<>>)
  \o FormatNewTasks(newTasks)

\* the lines add-tasks pushes under the heading
AddBlock(tasks, newTasks) ==
  (IF Len(tasks) > 0 THEN <<<<>>>> \o FormatTasks(tasks) ELSE <<>>)
  \o <<<<>>>> \o FormatNewTasks(newTasks)

\* a merge that inserts the checklist under the heading and keeps the lines
\* that were there
RECURSIVE MergeFromKeepsSection(_, _, _, _)
MergeFromKeepsSection(lines, i, inTasksSection, block) ==
  IF i > Len(lines) THEN <<>>
  ELSE IF IsTasksHeading(lines[i])
  THEN <<lines[i]>> \o block \o MergeFromKeepsSection(lines, i + 1, TRUE, block)
  ELSE <<lines[i]>> \o MergeFromKeepsSection(lines, i + 1, inTasksSection, block)

\* the for loop shared by updateStoryFile and updateStoryWithTasks, from
\* index i on: the lines it pushes to updatedLines
RECURSIVE MergeFrom(_, _, _, _)
MergeFrom(lines, i, inTasksSection, block) ==
  IF i > Len(lines) THEN <<>>
  ELSE IF IsTasksHeading(lines[i])
  THEN LET note == i + 1 <= Len(lines) /\ IsDeveloperNote(lines[i + 1])
           j == IF note THEN i + 1 ELSE i
       IN <<lines[i]>>
          \o (IF note THEN <<lines[i + 1]>> ELSE <<>>)
          \o block
          \o MergeFrom(lines, SkipTaskLines(lines, j) + 1, TRUE, block)
  ELSE IF inTasksSection /\ IsSectionHeading(lines[i])
  THEN <<lines[i]>> \o MergeFrom(lines, i + 1, FALSE, block)
  ELSE IF ~inTasksSection
  THEN <<lines[i]>> \o MergeFrom(lines, i + 1, FALSE, block)
  ELSE MergeFrom(lines, i + 1, TRUE, block)

\* updatedLines.join("\n") of update-task
MergeUpdate(content, tasks) ==
  Join(MergeFrom(Split(content), 1, FALSE, UpdateBlock(tasks)))

\* updatedLines.join("\n") of add-tasks
MergeAdd(content, tasks, newTasks) ==
  Join(MergeFrom(Split(content), 1, FALSE, AddBlock(tasks, newTasks)))

\* ------------------------------------------------------------------------
\* MarkdownRecordParser (the parsing inlined in fetchStory and listStories)
\* ------------------------------------------------------------------------

\* lines[0].replace(/^#\s+/, "")
TitleOf(content) ==
  LET first == Split(content)[1]
  IN IF Len(first) >= 2 /\ first[1] = "#" /\ IsSpace(first[2])
     THEN SubSeq(first, SkipWs(first, 2), Len(first))
     ELSE first

\* the while loop over descriptionStart (0-based in the source, 1-based here)
RECURSIVE DescriptionStart(_, _)
DescriptionStart(lines, i) ==
  IF i <= Len(lines) /\ Trim(lines[i]) = <<>>
  THEN DescriptionStart(lines, i + 1)
  ELSE i

\* trim of a text that holds line breaks
RECURSIVE TrimTextEnd(_)
TrimTextEnd(s) ==
  IF s # <<>> /\ (IsSpace(s[Len(s)]) \/ s[Len(s)] = NL)
  THEN TrimTextEnd(SubSeq(s, 1, Len(s) - 1))
  ELSE s

RECURSIVE SkipTextWs(_, _)
SkipTextWs(s, i) ==
  IF i <= Len(s) /\ (IsSpace(s[i]) \/ s[i] = NL) THEN SkipTextWs(s, i + 1) ELSE i

TrimText(s) == TrimTextEnd(SubSeq(s, SkipTextWs(s, 1), Len(s)))

\* lines.slice(descriptionStart).join("\n") then description.trim()
DescriptionOf(content) ==
  LET lines == Split(content)
  IN TrimText(Join(SubSeq(lines, DescriptionStart(lines, 2), Len(lines))))

\* /Labels?:/i matched at position p of s: the index after the colon, 0 when
\* there is no match at p
LabelKeyEnd(s, p) ==
  IF /\ p + 5 <= Len(s)
     /\ [k \in 1..5 |-> Lower(s[p + k - 1])] = <<"l", "a", "b", "e", "l">>
  THEN IF s[p + 5] = ":" THEN p + 6
       ELSE IF Lower(s[p + 5]) = "s" /\ p + 6 <= Len(s) /\ s[p + 6] = ":" THEN p + 7
       ELSE 0
  ELSE 0

\* index at which (.+) starts when \s* starts at index q, 0 when nothing is
\* left for (.+): \s* is greedy over white space and line breaks, and gives
\* back characters from its end until one that is not a line break is left
LabelTextStart(s, q) ==
  IF SkipTextWs(s, q) <= Len(s) THEN SkipTextWs(s, q)
  ELSE IF \E j \in q..Len(s) : s[j] # NL
  THEN CHOOSE j \in q..Len(s) : s[j] # NL /\ \A k \in (j + 1)..Len(s) : s[k] = NL
  ELSE 0

\* /Labels?:\s*(.+)/i matches at position p of s
LabelAt(s, p) == LabelKeyEnd(s, p) # 0 /\ LabelTextStart(s, LabelKeyEnd(s, p)) # 0

\* content.match(/Labels?:\s*(.+)/i): group 1 of the leftmost match
LabelMatch(content) ==
  IF \E p \in 1..Len(content) : LabelAt(content, p)
  THEN LET p == CHOOSE p \in 1..Len(content) :
                  LabelAt(content, p) /\ \A q \in 1..(p - 1) : ~LabelAt(content, q)
           i == LabelTextStart(content, LabelKeyEnd(content, p))
       IN [ok |-> TRUE,
           text |-> SubSeq(content, i,
                           IF NextNL(content, i) = 0 THEN Len(content)
                           ELSE NextNL(content, i) - 1)]
  ELSE [ok |-> FALSE, text |-> <<>>]

\* index of the first comma of s at or after i, 0 when there is none
NextComma(s, i) ==
  IF \E j \in i..Len(s) : s[j] = ","
  THEN CHOOSE j \in i..Len(s) : s[j] = "," /\ \A k \in i..(j - 1) : s[k] # ","
  ELSE 0

\* labelMatch[1].split(","): the pieces of s from index i on
RECURSIVE SplitCommaFrom(_, _)
SplitCommaFrom(s, i) ==
  LET j == NextComma(s, i)
  IN IF j = 0
     THEN <<SubSeq(s, i, Len(s))>>
     ELSE <<SubSeq(s, i, j - 1)>> \o SplitCommaFrom(s, j + 1)

\* labelMatch[1].split(",").map((l) => l.trim()), nothing without a match
ParsedLabels(content) ==
  IF LabelMatch(content).ok
  THEN LET pieces == SplitCommaFrom(LabelMatch(content).text, 1)
       IN [k \in 1..Len(pieces) |-> Trim(pieces[k])]
  ELSE <<>>

\* ------------------------------------------------------------------------
\* Documents and file system of the model
\* ------------------------------------------------------------------------

\* longest document (in lines) built from LinePool
MaxLines == 3

\* most story files on disk in the layouts with several files
MaxFiles == 2

LineTitle == <<"#", " ", "T">>
LineBlank == <<>>
LineTasks == <<"#", "#", " ", "T", "a", "s", "k", "s">>
LineOther == <<"#", "#", " ", "N">>
LineA == <<"-", " ", "[", " ", "]", " ", "A">>
LineB == <<"-", " ", "[", "x", "]", " ", "B", " ", "(", "#", "7", ")">>
LineC == <<"-", " ", "[", " ", "]", " ", "C">>
LineStatus == <<"S", "t", "a", "t", "u", "s", ":", " ", "d", "o", "n", "e">>
LineNote == <<">", " ">> \o Marker
LineDesc == <<"D", "e", "s", "c">>

LinePool ==
  {LineTitle, LineBlank, LineTasks, LineOther, LineA, LineB, LineStatus, LineNote}

PoolDocs ==
  UNION {{Join(ls) : ls \in [1..k -> LinePool]} : k \in 1..MaxLines}

\* scenario 1 of the specification:
\* "# Title\n\nDesc\n\n## Tasks\n\n- [ ] A\n- [x] B (#7)\n"
Scenario1Doc ==
  Join(<<LineTitle, LineBlank, LineDesc, LineBlank, LineTasks, LineBlank,
         LineA, LineB, LineBlank>>)

\* the layout generateStoryContent writes, each section cut to one line:
\* metadata with a stored status, acceptance criteria with a checklist, the
\* Tasks section with the developer note after a blank line, a checklist in
\* the definition of done
GeneratedDoc ==
  Join(<<LineTitle, LineBlank, LineStatus, LineBlank,
         LineOther, LineBlank, LineC, LineBlank,
         LineTasks, LineBlank, LineNote, LineBlank, LineA, LineBlank,
         LineOther, LineBlank, LineB, LineBlank>>)

\* a Tasks section that holds a note paragraph after its checklist and is
\* followed by another section
NotesDoc ==
  Join(<<LineTitle, LineBlank, LineTasks, LineBlank, LineA, LineB, LineBlank,
         LineDesc, LineBlank, LineOther, LineBlank, LineDesc, LineBlank>>)

LineLabels == <<"L", "a", "b", "e", "l", "s", ":", " ", "a", ",", " ", "b">>

\* a document that names its labels
LabelsDoc == Join(<<LineTitle, LineBlank, LineLabels, LineBlank, LineTasks, LineA>>)

LineMid == <<"-", " ", "[", "X", "]", " ", "A", " ", "(", "#", "7", ")", " ", "Z">>

\* a checklist text that names a pull request before its end
MidPrDoc == Join(<<LineTasks, LineMid, LineB>>)

NamedDocs == {Scenario1Doc, GeneratedDoc, NotesDoc, LabelsDoc, MidPrDoc}

\* storyTypes
StoryTypes == <<"user-stories", "tasks", "bugs">>

DotMd == <<".", "m", "d">>
Id42 == <<"4", "2">>
Id142 == <<"1", "4", "2">>
StoryPrefix == <<"s", "t", "o", "r", "y", "-">>

\* story ids given on the command line
StoryIds == {Id42, Id142}

FileNames == {Id42 \o DotMd, Id142 \o DotMd, StoryPrefix \o Id42 \o DotMd}

\* featuresDir, relative to the working directory
FeaturesDir == "features"

\* a path is <<category directory, file name>>
Paths == {<<StoryTypes[k], f>> : k \in DOMAIN StoryTypes, f \in FileNames}

Layouts == {S \in SUBSET Paths : Cardinality(S) <= MaxFiles}

VARIABLES
  fs,            \* the stories directory: present path -> file content
  pc,            \* position of the running command
  cmd,           \* "add-tasks", "update-task" or "list-stories"
  storyId,       \* the command's storyId argument
  storyFile,     \* fetchStory's storyFile
  storyContent,  \* fetchStory's storyContent
  storyData,     \* the record fetchStory returned, as the command holds it
  newTasks,      \* add-tasks' newTasks
  saveFile,      \* storyFile of updateStoryFile / updateStoryWithTasks
  saveContent,   \* storyContent of updateStoryFile / updateStoryWithTasks
  printed,       \* what update-task printed under "Updated Status:"
  stories,       \* the array listStories returned
  exitCode,      \* 1 after process.exit(1), 0 otherwise
  error,         \* the Error the command's catch received
  feature,       \* the record fetchFeature returned
  features,      \* the array listFeatures returned
  perm,          \* the files readFile / writeFile are denied (EACCES)
  pulls,         \* .github/pulls: present file name -> file content
  nextNumber     \* what the last createPullRequest returned, 0 before a call

vars ==
  <<fs, pc, cmd, storyId, storyFile, storyContent, storyData, newTasks,
    saveFile, saveContent, printed, stories, exitCode, error, feature,
    features, perm, pulls, nextNumber>>

NoFile == <<>>

NoStory ==
  [id |-> <<>>, title |-> <<>>, type |-> "", description |-> <<>>,
   labels |-> <<>>, tasks |-> <<>>, status |-> ""]

NoPrint == [completed |-> 0, total |-> 0, status |-> ""]

\* no Error thrown; an Error is modelled by what its message or code carries
NoError == [kind |-> "", id |-> <<>>, available |-> <<>>]

NoFeature ==
  [id |-> <<>>, title |-> <<>>, description |-> <<>>, labels |-> <<>>]

\* every file can be read and written
NoFaults == [unreadable |-> {}, unwritable |-> {}]

\* an absent pulls directory and no call of createPullRequest
NoPullRequests == pulls = <<>> /\ nextNumber = 0

\* the state of a command that has not started
Fresh ==
  /\ pc = "start"
  /\ cmd = ""
  /\ storyId = <<>>
  /\ storyFile = NoFile
  /\ storyContent = <<>>
  /\ storyData = NoStory
  /\ newTasks = <<>>
  /\ saveFile = NoFile
  /\ saveContent = <<>>
  /\ printed = NoPrint
  /\ stories = <<>>
  /\ exitCode = 0
  /\ error = NoError
  /\ feature = NoFeature
  /\ features = <<>>

\* one story and one feature with the same text, or a layout of stories and
\* no features directory; every file readable and writable
Init ==
  /\ \/ \E d \in PoolDocs \cup NamedDocs :
          fs = [p \in {<<"user-stories", Id42 \o DotMd>>,
                       <<FeaturesDir, Id42 \o DotMd>>} |-> d]
     \/ \E S \in Layouts : fs \in [S -> {Scenario1Doc, GeneratedDoc}]
  /\ perm = NoFaults
  /\ Fresh
  /\ NoPullRequests

\* ------------------------------------------------------------------------
\* RecordStore: lookup and load (LocalGitHubService.fetchStory)
\* ------------------------------------------------------------------------

\* readdir(typeDir), as a set: the order of the entries is the file system's
FilesIn(type) == {p[2] : p \in {q \in DOMAIN fs : q[1] = type}}

\* the orders in which readdir can return the entries
Orders(S) ==
  {o \in [1..Cardinality(S) -> S] : \A i, j \in DOMAIN o : i # j => o[i] # o[j]}

\* (file) => file.includes(storyId) || file === `${storyId}.md`
MatchesStory(file, id) == Includes(file, id) \/ file = id \o DotMd

\* files.find(...) over every order readdir can return: the files that can
\* be the first match
MatchingFiles(type, id) == {f \in FilesIn(type) : MatchesStory(f, id)}

\* the index in storyTypes at which the for loop breaks, 0 when it ends
\* without a match (a missing directory is skipped by the catch)
FirstMatchingType(id) ==
  IF \E k \in DOMAIN StoryTypes : MatchingFiles(StoryTypes[k], id) # {}
  THEN CHOOSE k \in DOMAIN StoryTypes :
         /\ MatchingFiles(StoryTypes[k], id) # {}
         /\ \A j \in 1..(k - 1) : MatchingFiles(StoryTypes[j], id) = {}
  ELSE 0

\* a fetchStory that trusts a status stored in the document
StoryRecordStoredStatus(id, type, content) ==
  [id |-> id,
   title |-> TitleOf(content),
   type |-> type,
   description |-> DescriptionOf(content),
   labels |-> <<type>>,
   tasks |-> extractTasksFromContent(content),
   status |-> IF Includes(content, <<"S", "t", "a", "t", "u", "s", ":", " ", "d", "o", "n", "e">>)
              THEN "done"
              ELSE calculateStoryStatus(extractTasksFromContent(content))]

\* the record fetchStory returns for the content read in directory type
StoryRecord(id, type, content) ==
  [id |-> id,
   title |-> TitleOf(content),
   type |-> type,
   description |-> DescriptionOf(content),
   labels |-> <<type>>,
   tasks |-> extractTasksFromContent(content),
   status |-> calculateStoryStatus(extractTasksFromContent(content))]

\* new Error(`Story #${storyId} not found in any story directories`)
StoryNotFound(id) == [kind |-> "story-not-found", id |-> id, available |-> <<>>]

\* the error readFile / writeFile throws for a file of perm
AccessDenied == [kind |-> "EACCES", id |-> <<>>, available |-> <<>>]

\* a loop that does not break: the match of the last directory that has one
\* replaces the earlier ones
ScanFromNoBreak(k, id) ==
  IF \A j \in k..Len(StoryTypes) : MatchingFiles(StoryTypes[j], id) = {}
  THEN {[file |-> NoFile, content |-> <<>>]}
  ELSE LET j == CHOOSE j \in k..Len(StoryTypes) :
                  /\ MatchingFiles(StoryTypes[j], id) # {}
                  /\ \A i \in (j + 1)..Len(StoryTypes) : MatchingFiles(StoryTypes[i], id) = {}
       IN {[file |-> <<StoryTypes[j], f>>, content |-> fs[<<StoryTypes[j], f>>]]
           : f \in MatchingFiles(StoryTypes[j], id)}

\* the outcomes of the for loop over storyTypes from index k on: a directory
\* that is missing or holds no match is passed over; a match that is read
\* breaks the loop; a match whose readFile throws lands in the loop's
\* catch, which goes on with the next directory
RECURSIVE ScanFrom(_, _)
ScanFrom(k, id) ==
  IF k > Len(StoryTypes)
  THEN {[file |-> NoFile, content |-> <<>>]}
  ELSE IF MatchingFiles(StoryTypes[k], id) = {}
  THEN ScanFrom(k + 1, id)
  ELSE UNION {IF <<StoryTypes[k], f>> \in perm.unreadable
              THEN ScanFrom(k + 1, id)
              ELSE {[file |-> <<StoryTypes[k], f>>,
                     content |-> fs[<<StoryTypes[k], f>>]]}
              : f \in MatchingFiles(StoryTypes[k], id)}

\* the command starts and awaits fetchStory(storyId); a story that is not
\* found (or whose file is empty: !storyContent) throws, and the command's
\* catch prints the error and exits with 1
FetchStory(c, id) ==
  /\ pc = "start"
  /\ cmd' = c
  /\ storyId' = id
  /\ \E r \in ScanFrom(1, id) :
       IF r.content = <<>>
       THEN /\ pc' = "failed"
            /\ exitCode' = 1
            /\ error' = StoryNotFound(id)
            /\ UNCHANGED <<storyFile, storyContent, storyData>>
       ELSE /\ pc' = "loaded"
            /\ storyFile' = r.file
            /\ storyContent' = r.content
            /\ storyData' = StoryRecord(id, r.file[1], r.content)
            /\ UNCHANGED <<exitCode, error>>
  /\ UNCHANGED <<fs, newTasks, saveFile, saveContent, printed, stories,
                 feature, features, perm, pulls, nextNumber>>

\* ------------------------------------------------------------------------
\* RecordStore: list (LocalGitHubService.listStories)
\* ------------------------------------------------------------------------

\* type.replace("-", " ")
TypeLabel(type) == IF type = "user-stories" THEN "user stories" ELSE type

\* file.match(/(\d+)/): position of the first digit of file, 0 when none
FirstDigit(file) ==
  IF \E i \in 1..Len(file) : IsDigit(file[i])
  THEN CHOOSE i \in 1..Len(file) :
         IsDigit(file[i]) /\ \A j \in 1..(i - 1) : ~IsDigit(file[j])
  ELSE 0

\* file.replace(".md", ""), then the first run of digits when there is one
ListId(file) ==
  IF FirstDigit(file) # 0
  THEN SubSeq(file, FirstDigit(file), SkipDigits(file, FirstDigit(file)) - 1)
  ELSE IF \E i \in 1..Len(file) : OccursAt(file, DotMd, i)
  THEN LET i == CHOOSE i \in 1..Len(file) :
                  OccursAt(file, DotMd, i) /\ \A j \in 1..(i - 1) : ~OccursAt(file, DotMd, j)
       IN SubSeq(file, 1, i - 1) \o SubSeq(file, i + Len(DotMd), Len(file))
  ELSE file

\* the files the for loop over mdFiles gets through: the first readFile that
\* throws ends the loop in the category's catch
ReadBeforeError(type, mdFiles) ==
  IF \E k \in DOMAIN mdFiles : <<type, mdFiles[k]>> \in perm.unreadable
  THEN SubSeq(mdFiles, 1,
              (CHOOSE k \in DOMAIN mdFiles :
                 /\ <<type, mdFiles[k]>> \in perm.unreadable
                 /\ \A j \in 1..(k - 1) : <<type, mdFiles[j]>> \notin perm.unreadable) - 1)
  ELSE mdFiles

\* a listing that stops before the last file of the category
ListCategoryDropLast(type, files) ==
  LET mdFiles == ReadBeforeError(type, SelectSeq(files, LAMBDA f : EndsWith(f, DotMd)))
  IN [k \in 1..(Len(mdFiles) - 1) |->
        [id |-> ListId(mdFiles[k]),
         title |-> TitleOf(fs[<<type, mdFiles[k]>>]),
         type |-> TypeLabel(type),
         status |-> calculateStoryStatus(
                      extractTasksFromContent(fs[<<type, mdFiles[k]>>])),
         file |-> <<type, mdFiles[k]>>]]

\* the entries pushed for one category, files being readdir's result
ListCategory(type, files) ==
  LET mdFiles == ReadBeforeError(type, SelectSeq(files, LAMBDA f : EndsWith(f, DotMd)))
  IN [k \in 1..Len(mdFiles) |->
        [id |-> ListId(mdFiles[k]),
         title |-> TitleOf(fs[<<type, mdFiles[k]>>]),
         type |-> TypeLabel(type),
         status |-> calculateStoryStatus(
                      extractTasksFromContent(fs[<<type, mdFiles[k]>>])),
         file |-> <<type, mdFiles[k]>>]]

\* list-stories: the whole of listStories
ListStories ==
  /\ pc = "start"
  /\ cmd' = "list-stories"
  /\ \E o1 \in Orders(FilesIn(StoryTypes[1])),
        o2 \in Orders(FilesIn(StoryTypes[2])),
        o3 \in Orders(FilesIn(StoryTypes[3])) :
       stories' = ListCategory(StoryTypes[1], o1)
                  \o ListCategory(StoryTypes[2], o2)
                  \o ListCategory(StoryTypes[3], o3)
  /\ pc' = "listed"
  /\ UNCHANGED <<fs, storyId, storyFile, storyContent, storyData, newTasks,
                 saveFile, saveContent, printed, exitCode, error, feature,
                 features, perm, pulls, nextNumber>>

\* ------------------------------------------------------------------------
\* Features (LocalGitHubService.fetchFeature, listFeatures)
\* ------------------------------------------------------------------------

FeaturePrefix == <<"f", "e", "a", "t", "u", "r", "e", "-">>

\* the predicate of files.find in fetchFeature
MatchesFeature(file, id) ==
  \/ Includes(file, id)
  \/ file = id \o DotMd
  \/ file = FeaturePrefix \o id \o DotMd

\* f.replace(".md", "")
WithoutDotMd(file) ==
  IF \E i \in 1..Len(file) : OccursAt(file, DotMd, i)
  THEN LET i == CHOOSE i \in 1..Len(file) :
                  OccursAt(file, DotMd, i) /\ \A j \in 1..(i - 1) : ~OccursAt(file, DotMd, j)
       IN SubSeq(file, 1, i - 1) \o SubSeq(file, i + Len(DotMd), Len(file))
  ELSE file

\* new Error(`Feature #${featureId} not found. Available features: ...`),
\* files being readdir's result
FeatureNotFound(id, files) ==
  [kind |-> "feature-not-found",
   id |-> id,
   available |-> LET mdFiles == SelectSeq(files, LAMBDA f : EndsWith(f, DotMd))
                 IN [k \in 1..Len(mdFiles) |-> WithoutDotMd(mdFiles[k])]]

\* new Error(`Features directory not found at ${this.featuresDir}`)
FeaturesDirNotFound ==
  [kind |-> "features-directory-not-found", id |-> <<>>, available |-> <<>>]

\* the label fetchFeature starts the list with
FeatureLabel == <<"f", "e", "a", "t", "u", "r", "e">>

\* the record fetchFeature returns for the content it read
FeatureRecord(id, content) ==
  [id |-> id,
   title |-> TitleOf(content),
   description |-> DescriptionOf(content),
   labels |-> <<FeatureLabel>> \o ParsedLabels(content)]

\* create-stories: the command starts and awaits fetchFeature(featureId); a
\* missing directory, a feature that is not found and a readFile that throws
\* reach the command's catch, which prints the error and exits with 1
FetchFeature(id) ==
  /\ pc = "start"
  /\ cmd' = "create-stories"
  /\ IF FilesIn(FeaturesDir) = {}
     THEN /\ pc' = "failed"
          /\ exitCode' = 1
          /\ error' = FeaturesDirNotFound
          /\ UNCHANGED feature
     ELSE \E o \in Orders(FilesIn(FeaturesDir)) :
            IF \A k \in DOMAIN o : ~MatchesFeature(o[k], id)
            THEN /\ pc' = "failed"
                 /\ exitCode' = 1
                 /\ error' = FeatureNotFound(id, o)
                 /\ UNCHANGED feature
            ELSE LET k == CHOOSE k \in DOMAIN o :
                            /\ MatchesFeature(o[k], id)
                            /\ \A j \in 1..(k - 1) : ~MatchesFeature(o[j], id)
                 IN IF <<FeaturesDir, o[k]>> \in perm.unreadable
                    THEN /\ pc' = "failed"
                         /\ exitCode' = 1
                         /\ error' = AccessDenied
                         /\ UNCHANGED feature
                    ELSE /\ pc' = "feature"
                         /\ feature' = FeatureRecord(id, fs[<<FeaturesDir, o[k]>>])
                         /\ UNCHANGED <<exitCode, error>>
  /\ UNCHANGED <<fs, storyId, storyFile, storyContent, storyData, newTasks,
                 saveFile, saveContent, printed, stories, features, perm, pulls, nextNumber>>

\* String(index + 1), or the first run of digits of the file name
FeatureListId(file, index) ==
  IF FirstDigit(file) # 0
  THEN SubSeq(file, FirstDigit(file), SkipDigits(file, FirstDigit(file)) - 1)
  ELSE NatToStr(index)

\* list-features: the whole of listFeatures; a missing directory gives [],
\* a readFile that throws rejects the Promise.all and the command's catch
\* prints the error
ListFeatures ==
  /\ pc = "start"
  /\ cmd' = "list-features"
  /\ \E o \in Orders(FilesIn(FeaturesDir)) :
       LET mdFiles == SelectSeq(o, LAMBDA f : EndsWith(f, DotMd))
       IN IF \E k \in DOMAIN mdFiles : <<FeaturesDir, mdFiles[k]>> \in perm.unreadable
          THEN /\ error' = AccessDenied
               /\ UNCHANGED features
          ELSE /\ features' =
                    [k \in 1..Len(mdFiles) |->
                       [id |-> FeatureListId(mdFiles[k], k),
                        title |-> TitleOf(fs[<<FeaturesDir, mdFiles[k]>>]),
                        file |-> mdFiles[k]]]
               /\ UNCHANGED error
  /\ pc' = "listed"
  /\ UNCHANGED <<fs, storyId, storyFile, storyContent, storyData, newTasks,
                 saveFile, saveContent, printed, stories, exitCode, feature, perm, pulls, nextNumber>>

\* ------------------------------------------------------------------------
\* update-task (updateTaskCommand)
\* ------------------------------------------------------------------------

\* task ids given on the command line
TaskIds == {<<"1">>, <<"2">>, <<"9">>}

\* answers to "Pull request number (or empty to remove):" that pass validate
PrInputs == {<<>>, <<"7">>, <<"1", "2">>}

\* answers to "New task description:" and "Task n description:"
DescInputs == {<<"Z">>, <<"Z", " ", "(", "#", "5", ")">>}

\* findTaskIndex, 1-based; 0 for the source's -1
FindTaskIndex(tasks, taskId) ==
  IF ParseInt(taskId) >= 1 /\ ParseInt(taskId) <= Len(tasks)
  THEN ParseInt(taskId)
  ELSE IF \E k \in 1..Len(tasks) : tasks[k].id = taskId
  THEN CHOOSE k \in 1..Len(tasks) :
         tasks[k].id = taskId /\ \A j \in 1..(k - 1) : tasks[j].id # taskId
  ELSE 0

\* targetTask.prNumber ? String(targetTask.prNumber) : ""
CurrentPR(task) ==
  IF task.prNumber # Undefined /\ task.prNumber # 0
  THEN NatToStr(task.prNumber)
  ELSE <<>>

\* the block after the pull request prompt
WithPrInput(task, prNumber) ==
  IF Trim(prNumber) # <<>>
  THEN [task EXCEPT !.prNumber = ParseInt(Trim(prNumber))]
  ELSE [task EXCEPT !.prNumber = Undefined]

\* "No tasks found for this story."
UpdateTaskNoTasks ==
  /\ pc = "loaded"
  /\ cmd = "update-task"
  /\ Len(storyData.tasks) = 0
  /\ pc' = "done"
  /\ UNCHANGED <<fs, cmd, storyId, storyFile, storyContent, storyData, newTasks,
                 saveFile, saveContent, printed, stories, exitCode,
                 error, feature, features, perm, pulls, nextNumber>>

\* `Task "${taskId}" not found.`
UpdateTaskNotFound(taskId) ==
  /\ pc = "loaded"
  /\ cmd = "update-task"
  /\ Len(storyData.tasks) # 0
  /\ FindTaskIndex(storyData.tasks, taskId) = 0
  /\ pc' = "done"
  /\ UNCHANGED <<fs, cmd, storyId, storyFile, storyContent, storyData, newTasks,
                 saveFile, saveContent, printed, stories, exitCode,
                 error, feature, features, perm, pulls, nextNumber>>

\* a cancel that saves the loaded list before it returns
UpdateTaskCancelSaves(taskId) ==
  /\ pc = "loaded"
  /\ cmd = "update-task"
  /\ Len(storyData.tasks) # 0
  /\ FindTaskIndex(storyData.tasks, taskId) # 0
  /\ fs' = [fs EXCEPT ![storyFile] = MergeUpdate(storyContent, storyData.tasks)]
  /\ pc' = "done"
  /\ UNCHANGED <<cmd, storyId, storyFile, storyContent, storyData, newTasks,
                 saveFile, saveContent, printed, stories, exitCode,
                 error, feature, features, perm, pulls, nextNumber>>

\* action === "cancel"
UpdateTaskCancel(taskId) ==
  /\ pc = "loaded"
  /\ cmd = "update-task"
  /\ Len(storyData.tasks) # 0
  /\ FindTaskIndex(storyData.tasks, taskId) # 0
  /\ pc' = "done"
  /\ UNCHANGED <<fs, cmd, storyId, storyFile, storyContent, storyData, newTasks,
                 saveFile, saveContent, printed, stories, exitCode,
                 error, feature, features, perm, pulls, nextNumber>>

\* action === "toggle"; the pull request prompt follows when the task has
\* become completed
UpdateTaskToggle(taskId, prNumber) ==
  /\ pc = "loaded"
  /\ cmd = "update-task"
  /\ Len(storyData.tasks) # 0
  /\ FindTaskIndex(storyData.tasks, taskId) # 0
  /\ LET k == FindTaskIndex(storyData.tasks, taskId)
         toggled == [storyData.tasks[k] EXCEPT !.completed = ~@]
     IN storyData' =
          [storyData EXCEPT !.tasks[k] =
             IF toggled.completed THEN WithPrInput(toggled, prNumber) ELSE toggled]
  /\ pc' = "updated"
  /\ UNCHANGED <<fs, cmd, storyId, storyFile, storyContent, newTasks,
                 saveFile, saveContent, printed, stories, exitCode,
                 error, feature, features, perm, pulls, nextNumber>>

\* action === "pr"
UpdateTaskPr(taskId, prNumber) ==
  /\ pc = "loaded"
  /\ cmd = "update-task"
  /\ Len(storyData.tasks) # 0
  /\ FindTaskIndex(storyData.tasks, taskId) # 0
  /\ LET k == FindTaskIndex(storyData.tasks, taskId)
     IN storyData' =
          [storyData EXCEPT !.tasks[k] = WithPrInput(storyData.tasks[k], prNumber)]
  /\ pc' = "updated"
  /\ UNCHANGED <<fs, cmd, storyId, storyFile, storyContent, newTasks,
                 saveFile, saveContent, printed, stories, exitCode,
                 error, feature, features, perm, pulls, nextNumber>>

\* action === "edit"; validate rejects a blank answer
UpdateTaskEdit(taskId, newDescription) ==
  /\ pc = "loaded"
  /\ cmd = "update-task"
  /\ Len(storyData.tasks) # 0
  /\ FindTaskIndex(storyData.tasks, taskId) # 0
  /\ Trim(newDescription) # <<>>
  /\ LET k == FindTaskIndex(storyData.tasks, taskId)
     IN storyData' = [storyData EXCEPT !.tasks[k].description = Trim(newDescription)]
  /\ pc' = "updated"
  /\ UNCHANGED <<fs, cmd, storyId, storyFile, storyContent, newTasks,
                 saveFile, saveContent, printed, stories, exitCode,
                 error, feature, features, perm, pulls, nextNumber>>

\* action "pr" or "edit" with the prompt's default answer accepted: the
\* current pull request number, the current description
UpdateTaskDefault(taskId, action) ==
  /\ pc = "loaded"
  /\ cmd = "update-task"
  /\ Len(storyData.tasks) # 0
  /\ FindTaskIndex(storyData.tasks, taskId) # 0
  /\ LET k == FindTaskIndex(storyData.tasks, taskId)
         task == storyData.tasks[k]
     IN IF action = "pr"
        THEN storyData' = [storyData EXCEPT !.tasks[k] = WithPrInput(task, CurrentPR(task))]
        ELSE /\ Trim(task.description) # <<>>
             /\ storyData' = [storyData EXCEPT !.tasks[k].description = Trim(task.description)]
  /\ pc' = "updated"
  /\ UNCHANGED <<fs, cmd, storyId, storyFile, storyContent, newTasks,
                 saveFile, saveContent, printed, stories, exitCode,
                 error, feature, features, perm, pulls, nextNumber>>

\* ------------------------------------------------------------------------
\* add-tasks (addTasksCommand)
\* ------------------------------------------------------------------------

NewTaskC == [description |-> <<"C">>, completed |-> FALSE]
NewTaskD == [description |-> <<"D">>, completed |-> TRUE]

\* what addTasksInteractively, addTasksBulk and addTasksWithClaude return
NewTaskLists == {<<>>, <<NewTaskC>>, <<NewTaskC, NewTaskD>>}

\* "Add more tasks to this story?" answered no
AddTasksDecline ==
  /\ pc = "loaded"
  /\ cmd = "add-tasks"
  /\ Len(storyData.tasks) > 0
  /\ pc' = "done"
  /\ UNCHANGED <<fs, cmd, storyId, storyFile, storyContent, storyData, newTasks,
                 saveFile, saveContent, printed, stories, exitCode,
                 error, feature, features, perm, pulls, nextNumber>>

\* the tasks are entered; "No tasks added." when there is none
AddTasksEnter(tasks) ==
  /\ pc = "loaded"
  /\ cmd = "add-tasks"
  /\ newTasks' = tasks
  /\ pc' = IF Len(tasks) = 0 THEN "done" ELSE "entered"
  /\ UNCHANGED <<fs, cmd, storyId, storyFile, storyContent, storyData,
                 saveFile, saveContent, printed, stories, exitCode,
                 error, feature, features, perm, pulls, nextNumber>>

\* ------------------------------------------------------------------------
\* RecordStore: save (updateStoryFile, updateStoryWithTasks)
\* ------------------------------------------------------------------------

\* possibleFiles
PossibleFiles(id) == <<id \o DotMd, StoryPrefix \o id \o DotMd>>

\* the paths the two nested loops try to read, in order
SaveCandidates(id) ==
  [n \in 1..(Len(StoryTypes) * Len(PossibleFiles(id))) |->
     <<StoryTypes[((n - 1) \div Len(PossibleFiles(id))) + 1],
       PossibleFiles(id)[((n - 1) % Len(PossibleFiles(id))) + 1]>>]

\* the paths readFile returns the content of
Readable == DOMAIN fs \ perm.unreadable

\* the first path the loops read successfully, NoFile when every read fails
\* (a file that is missing and a file that cannot be read are both passed
\* over by the inner catch)
FindSaveFile(id) ==
  LET c == SaveCandidates(id)
  IN IF \E n \in DOMAIN c : c[n] \in Readable
     THEN c[CHOOSE n \in DOMAIN c :
              c[n] \in Readable /\ \A m \in 1..(n - 1) : c[m] \notin Readable]
     ELSE NoFile

\* new Error(`Story file for ${storyData.id} not found`)
StoryFileNotFound(id) ==
  [kind |-> "story-file-not-found", id |-> id, available |-> <<>>]

\* the first half of updateStoryFile / updateStoryWithTasks: the story file
\* is looked up again by storyData.id and read again; `Story file for ... not
\* found` is thrown when no candidate can be read
ReRead ==
  /\ pc \in {"updated", "entered"}
  /\ IF FindSaveFile(storyData.id) = NoFile
     THEN /\ pc' = "failed"
          /\ exitCode' = 1
          /\ error' = StoryFileNotFound(storyData.id)
          /\ UNCHANGED <<saveFile, saveContent>>
     ELSE /\ pc' = "reread"
          /\ saveFile' = FindSaveFile(storyData.id)
          /\ saveContent' = fs[FindSaveFile(storyData.id)]
          /\ UNCHANGED <<exitCode, error>>
  /\ UNCHANGED <<fs, cmd, storyId, storyFile, storyContent, storyData, newTasks,
                 printed, stories, feature, features, perm, pulls, nextNumber>>

\* a save that compares the text it re-read with the text the command loaded
\* and throws when they differ
WriteStoryVersionChecked ==
  /\ pc = "reread"
  /\ IF saveFile \in perm.unwritable \/ saveContent # storyContent
     THEN /\ pc' = "failed"
          /\ exitCode' = 1
          /\ error' = AccessDenied
          /\ UNCHANGED <<fs, printed>>
     ELSE /\ fs' = [fs EXCEPT ![saveFile] =
                      IF cmd = "update-task"
                      THEN MergeUpdate(saveContent, storyData.tasks)
                      ELSE MergeAdd(saveContent, storyData.tasks, newTasks)]
          /\ printed' =
               IF cmd = "update-task"
               THEN [completed |-> CompletedCount(storyData.tasks),
                     total |-> Len(storyData.tasks),
                     status |-> calculateStoryStatusOfCounts(
                                  CompletedCount(storyData.tasks), Len(storyData.tasks))]
               ELSE printed
          /\ pc' = "saved"
          /\ UNCHANGED <<exitCode, error>>
  /\ UNCHANGED <<cmd, storyId, storyFile, storyContent, storyData, newTasks,
                 saveFile, saveContent, stories, feature, features, perm, pulls, nextNumber>>

\* a save that merges into the text the command loaded and writes it without
\* re-reading the backing file
WriteStoryBeforeReRead ==
  /\ pc \in {"updated", "entered"}
  /\ fs' = [fs EXCEPT ![storyFile] =
              IF cmd = "update-task"
              THEN MergeUpdate(storyContent, storyData.tasks)
              ELSE MergeAdd(storyContent, storyData.tasks, newTasks)]
  /\ saveFile' = storyFile
  /\ saveContent' = storyContent
  /\ pc' = "saved"
  /\ UNCHANGED <<cmd, storyId, storyFile, storyContent, storyData, newTasks,
                 printed, stories, exitCode, error, feature, features, perm, pulls, nextNumber>>

\* the second half: merge, writeFile, and what the command prints after it;
\* a writeFile that throws reaches the command's catch, which prints the
\* error and exits with 1
WriteStory ==
  /\ pc = "reread"
  /\ IF saveFile \in perm.unwritable
     THEN /\ pc' = "failed"
          /\ exitCode' = 1
          /\ error' = AccessDenied
          /\ UNCHANGED <<fs, printed>>
     ELSE /\ fs' = [fs EXCEPT ![saveFile] =
                      IF cmd = "update-task"
                      THEN MergeUpdate(saveContent, storyData.tasks)
                      ELSE MergeAdd(saveContent, storyData.tasks, newTasks)]
          /\ printed' =
               IF cmd = "update-task"
               THEN [completed |-> CompletedCount(storyData.tasks),
                     total |-> Len(storyData.tasks),
                     status |-> calculateStoryStatusOfCounts(
                                  CompletedCount(storyData.tasks), Len(storyData.tasks))]
               ELSE printed
          /\ pc' = "saved"
          /\ UNCHANGED <<exitCode, error>>
  /\ UNCHANGED <<cmd, storyId, storyFile, storyContent, storyData, newTasks,
                 saveFile, saveContent, stories, feature, features, perm, pulls, nextNumber>>

Next ==
  \/ \E c \in {"add-tasks", "update-task"}, id \in StoryIds : FetchStory(c, id)
  \/ ListStories
  \/ \E id \in StoryIds : FetchFeature(id)
  \/ ListFeatures
  \/ UpdateTaskNoTasks
  \/ \E t \in TaskIds : UpdateTaskNotFound(t)
  \/ \E t \in TaskIds : UpdateTaskCancel(t)
  \/ \E t \in TaskIds, n \in PrInputs : UpdateTaskToggle(t, n)
  \/ \E t \in TaskIds, a \in {"pr", "edit"} : UpdateTaskDefault(t, a)
  \/ \E t \in TaskIds, n \in PrInputs : UpdateTaskPr(t, n)
  \/ \E t \in TaskIds, d \in DescInputs : UpdateTaskEdit(t, d)
  \/ AddTasksDecline
  \/ \E tasks \in NewTaskLists : AddTasksEnter(tasks)
  \/ ReRead
  \/ WriteStory

Spec == Init /\ [][Next]_vars

\* ------------------------------------------------------------------------
\* Files that cannot be read or written
\* ------------------------------------------------------------------------

\* scenario 3 of the specification: only the heading
TasksOnlyDoc == Join(<<LineTasks>>)

SmallDocs == {Scenario1Doc, TasksOnlyDoc}

\* no fault, or one file of S that readFile or writeFile is denied
FaultsOf(S) ==
  {NoFaults}
    \cup {[unreadable |-> {p}, unwritable |-> {}] : p \in S}
    \cup {[unreadable |-> {}, unwritable |-> {p}] : p \in S}

InitIO ==
  /\ \E S \in Layouts :
       /\ fs \in [S -> SmallDocs]
       /\ perm \in FaultsOf(S)
  /\ Fresh
  /\ NoPullRequests

SpecIO == InitIO /\ [][Next]_vars

\* ------------------------------------------------------------------------
\* A second process
\* ------------------------------------------------------------------------

\* the task the second process adds
NewTaskE == [description |-> <<"E">>, completed |-> FALSE]

\* a second add-tasks process on the same story runs from its load to its
\* save between this command's load and this command's save; it runs once
ExternalAddTasks ==
  /\ pc \in {"loaded", "updated", "entered"}
  /\ \A p \in DOMAIN fs : ~Includes(fs[p], FormatNewTask(NewTaskE))
  /\ FindSaveFile(storyId) # NoFile
  /\ \E r \in ScanFrom(1, storyId) :
       /\ r.content # <<>>
       /\ fs' = [fs EXCEPT ![FindSaveFile(storyId)] =
                   MergeAdd(fs[FindSaveFile(storyId)],
                            extractTasksFromContent(r.content), <<NewTaskE>>)]
  /\ UNCHANGED <<pc, cmd, storyId, storyFile, storyContent, storyData, newTasks,
                 saveFile, saveContent, printed, stories, exitCode, error,
                 feature, features, perm, pulls, nextNumber>>

InitConcurrent ==
  /\ \E S \in Layouts : fs \in [S -> SmallDocs]
  /\ perm = NoFaults
  /\ Fresh
  /\ NoPullRequests

NextConcurrent == Next \/ ExternalAddTasks

SpecConcurrent == InitConcurrent /\ [][NextConcurrent]_vars

\* ------------------------------------------------------------------------
\* Local pull requests (LocalGitHubService.createPullRequest)
\* ------------------------------------------------------------------------

\* the largest pull request number a call may start from
MaxPrNumber == 5

\* the digits at the start of s: what parseInt reads of a string without
\* leading whitespace or sign
RECURSIVE LeadingDigits(_)
LeadingDigits(s) ==
  IF s # <<>> /\ IsDigit(s[1]) THEN <<s[1]>> \o LeadingDigits(Tail(s)) ELSE <<>>

\* !isNaN(parseInt(f.replace(".md", "")))
IsPrNumberFile(f) == LeadingDigits(WithoutDotMd(f)) # <<>>

\* files.filter(endsWith(".md")).map(parseInt(f.replace(".md", "")))
\*      .filter(!isNaN)
PrNumbers(files) ==
  {ParseInt(LeadingDigits(WithoutDotMd(f))) :
     f \in {g \in files : EndsWith(g, DotMd) /\ IsPrNumberFile(g)}}

\* numbering by the count of the .md files
NextNumberByCount(files) ==
  Cardinality({g \in files : EndsWith(g, DotMd)}) + 1

\* prNumbers.length > 0 ? Math.max(...prNumbers) + 1 : 1
NextNumber(files) ==
  LET prNumbers == PrNumbers(files)
  IN IF prNumbers # {}
     THEN (CHOOSE n \in prNumbers : \A m \in prNumbers : m <= n) + 1
     ELSE 1

\* prContent, without the time of the call
PrContent(number, id, title, body) ==
  [number |-> number, title |-> title, story |-> id, body |-> body]

\* a file somebody else put into the directory
OtherFile == [number |-> 0, title |-> <<>>, story |-> <<>>, body |-> <<>>]

\* names a pulls directory can hold: 1.md, 2.md, 3.md, 2x.md, a.md, 3.txt
PullNames ==
  {<<"1">> \o DotMd, <<"2">> \o DotMd, <<"3">> \o DotMd,
   <<"2", "x">> \o DotMd, <<"a">> \o DotMd, <<"3", ".", "t", "x", "t">>}

\* one call: mkdir makes the directory exist, so readdir does not throw
\* ENOENT and the catch is not entered
CreatePullRequest(id, title, body) ==
  LET number == NextNumber(DOMAIN pulls)
      file == NatToStr(number) \o DotMd
  IN /\ number <= MaxPrNumber
     /\ nextNumber' = number
     /\ pulls' = [f \in DOMAIN pulls \cup {file} |->
                    IF f = file THEN PrContent(number, id, title, body) ELSE pulls[f]]
     /\ UNCHANGED <<fs, pc, cmd, storyId, storyFile, storyContent, storyData,
                    newTasks, saveFile, saveContent, printed, stories, exitCode,
                    error, feature, features, perm>>

\* no story, any pulls directory, no call made yet
InitPulls ==
  /\ fs = <<>>
  /\ perm = NoFaults
  /\ Fresh
  /\ \E S \in SUBSET PullNames : pulls = [f \in S |-> OtherFile]
  /\ nextNumber = 0

NextPulls ==
  \E id \in StoryIds : CreatePullRequest(id, <<"T">>, <<"B">>)

SpecPulls == InitPulls /\ [][NextPulls]_vars

\* ------------------------------------------------------------------------
\* Vocabulary of the properties
\* ------------------------------------------------------------------------

HasTasksHeading(content) ==
  LET lines == Split(content)
  IN \E i \in DOMAIN lines : IsTasksHeading(lines[i])

\* index of the first Tasks heading of lines (there is one)
TasksHeadingIndex(lines) ==
  CHOOSE h \in DOMAIN lines :
    IsTasksHeading(lines[h]) /\ \A j \in 1..(h - 1) : ~IsTasksHeading(lines[j])

\* index of the first line after h that starts with ##, Len(lines) + 1 when
\* there is none
NextSectionIndex(lines, h) ==
  IF \E n \in (h + 1)..Len(lines) : IsSectionHeading(lines[n])
  THEN CHOOSE n \in (h + 1)..Len(lines) :
         IsSectionHeading(lines[n])
         /\ \A j \in (h + 1)..(n - 1) : ~IsSectionHeading(lines[j])
  ELSE Len(lines) + 1

\* the text with every whitespace character and line break removed
StripWhitespace(s) == SelectSeq(s, LAMBDA c : ~IsSpace(c) /\ c # NL)

\* a is obtained from b by deleting elements
RECURSIVE IsSubsequence(_, _)
IsSubsequence(a, b) ==
  IF a = <<>> THEN TRUE
  ELSE IF b = <<>> THEN FALSE
  ELSE IF a[1] = b[1] THEN IsSubsequence(Tail(a), Tail(b))
  ELSE IsSubsequence(a, Tail(b))

\* the lines an author wrote that are neither checklist lines nor blank
AuthorLines(lines) ==
  SelectSeq(lines, LAMBDA l : ~TaskMatch(l).ok /\ Trim(l) # <<>>)

\* the text before the first Tasks heading is kept, and so is the text from
\* the next ## line on
FrameKept(before, after) ==
  LET L == Split(before)
      W == Split(after)
      h == TasksHeadingIndex(L)
      n == NextSectionIndex(L, h)
  IN /\ Len(W) >= h
     /\ SubSeq(W, 1, h) = SubSeq(L, 1, h)
     /\ Len(W) >= h + (Len(L) - n + 1)
     /\ SubSeq(W, Len(W) - (Len(L) - n), Len(W)) = SubSeq(L, n, Len(L))

\* the save of update-task was given the list that load decoded from the
\* very text it merges into
UnchangedSave ==
  /\ pc = "saved"
  /\ cmd = "update-task"
  /\ saveFile = storyFile
  /\ saveContent = storyContent
  /\ storyData.tasks = extractTasksFromContent(storyContent)

\* ------------------------------------------------------------------------
\* Properties
\* ------------------------------------------------------------------------

\* C1: round trip. For a document with a Tasks heading, merging the task
\* list decoded at load unchanged into the document and decoding the written
\* document yields the same task list.
C1_RoundTrip ==
  (UnchangedSave /\ HasTasksHeading(storyContent))
    => extractTasksFromContent(fs[saveFile]) = storyData.tasks

\* C2: saving an unchanged task list writes a document identical to the
\* original except possibly for whitespace between the Tasks heading and the
\* next section.
C2_UnchangedSaveIdentical ==
  UnchangedSave =>
    IF ~HasTasksHeading(saveContent) THEN fs[saveFile] = saveContent
    ELSE LET L == Split(saveContent)
             W == Split(fs[saveFile])
             h == TasksHeadingIndex(L)
         IN /\ FrameKept(saveContent, fs[saveFile])
            /\ StripWhitespace(Join(SubSeq(L, h + 1, NextSectionIndex(L, h) - 1)))
               = StripWhitespace(Join(SubSeq(W, h + 1, NextSectionIndex(W, h) - 1)))

\* C3: a save writes back verbatim all text before the Tasks heading and all
\* text from the next line starting with ## onward, whatever those lines
\* contain.
C3_FrameVerbatim ==
  (pc = "saved" /\ HasTasksHeading(saveContent))
    => FrameKept(saveContent, fs[saveFile])

\* C4: a save keeps every author-written line that is neither a checklist
\* line nor a blank line, prose inside the Tasks section included, unchanged
\* and in the same relative order.
C4_AuthorLinesKept ==
  pc = "saved" =>
    IsSubsequence(AuthorLines(Split(saveContent)), Split(fs[saveFile]))

\* C5: a save attempted on a document without a Tasks heading fails with an
\* explicit error; the command never ends successfully there.
C5_MissingHeadingIsError ==
  (pc = "saved" /\ ~HasTasksHeading(saveContent)) => exitCode # 0

\* C6: lookup prefers the exact file name {id}.md over a substring match,
\* also when the substring match lies in a category scanned earlier.
C6_ExactMatchPreferred ==
  (storyFile # NoFile
   /\ \E k \in DOMAIN StoryTypes : <<StoryTypes[k], storyId \o DotMd>> \in DOMAIN fs)
    => storyFile[2] = storyId \o DotMd

\* C7: after a successful load the save writes to exactly the path load read
\* and never fails with a not-found error.
C7_SavePathIsLoadPath ==
  storyFile # NoFile =>
    /\ pc # "failed"
    /\ saveFile # NoFile => saveFile = storyFile

\* C8: the status deriver returns todo when no task is completed (or there
\* is none), done when there is a task and every task is completed, and
\* in-progress otherwise, whatever the order of the tasks, and never review;
\* this holds for the store's deriver at load and for update-task's deriver
\* after a save.
C8_StatusDeriver ==
  /\ pc = "loaded" =>
       LET T == storyData.tasks
           s == storyData.status
       IN /\ s \in {"todo", "in-progress", "done"}
          /\ (s = "todo") <=> (\A k \in DOMAIN T : ~T[k].completed)
          /\ (s = "done") <=> (T # <<>> /\ \A k \in DOMAIN T : T[k].completed)
          /\ s = calculateStoryStatus([k \in DOMAIN T |-> T[Len(T) + 1 - k]])
  /\ (pc = "saved" /\ cmd = "update-task") =>
       LET T == storyData.tasks
           s == printed.status
       IN /\ s \in {"todo", "in-progress", "done"}
          /\ (s = "todo") <=> (\A k \in DOMAIN T : ~T[k].completed)
          /\ (s = "done") <=> (T # <<>> /\ \A k \in DOMAIN T : T[k].completed)

\* a story loaded as in-progress whose last open task was then completed
C8_Witness ==
  /\ pc = "saved"
  /\ cmd = "update-task"
  /\ storyData.status = "in-progress"
  /\ printed.status = "done"
  /\ Len(storyData.tasks) >= 2

\* C9: the status of every record fetchStory or listStories returns is the
\* deriver applied to the tasks decoded from the file's text; a status
\* written in the document has no influence.
C9_StatusFromChecklist ==
  /\ pc = "loaded" =>
       storyData.status =
         calculateStoryStatus(extractTasksFromContent(fs[storyFile]))
  /\ \A k \in DOMAIN stories :
       stories[k].status =
         calculateStoryStatus(extractTasksFromContent(fs[stories[k].file]))

\* a loaded document that says "Status: done" while its only task is open
C9_Witness ==
  /\ pc = "loaded"
  /\ Includes(storyContent, LineStatus)
  /\ Len(storyData.tasks) > 0
  /\ storyData.status = "todo"

\* C10: add-tasks writes under the Tasks heading one block: the lines of the
\* loaded tasks in order, directly followed by the lines of the new tasks in
\* entry order, no blank line between them; the text before the heading is
\* unchanged.
C10_AddTasksOneBlock ==
  (pc = "saved" /\ cmd = "add-tasks" /\ HasTasksHeading(saveContent)) =>
    LET L == Split(saveContent)
        W == Split(fs[saveFile])
        h == TasksHeadingIndex(L)
        block == FormatTasks(storyData.tasks) \o FormatNewTasks(newTasks)
    IN /\ SubSeq(W, 1, h) = SubSeq(L, 1, h)
       /\ \E s \in (h + 1)..Len(W) :
            /\ \A j \in (h + 1)..(s - 1) : Trim(W[j]) = <<>> \/ IsDeveloperNote(W[j])
            /\ s + Len(block) - 1 <= Len(W)
            /\ SubSeq(W, s, s + Len(block) - 1) = block

\* C10, as the code has it: under the Tasks heading (and the developer note
\* kept after it) add-tasks writes a blank line and the lines of the loaded
\* tasks in order when there are loaded tasks, then a blank line, then the
\* lines of the new tasks in entry order; the text up to the heading is
\* unchanged.
C10_AddTasksSeparatedBlocks ==
  (pc = "saved" /\ cmd = "add-tasks" /\ HasTasksHeading(saveContent)) =>
    LET L == Split(saveContent)
        W == Split(fs[saveFile])
        h == TasksHeadingIndex(L)
        s == IF h + 1 <= Len(L) /\ IsDeveloperNote(L[h + 1]) THEN h + 2 ELSE h + 1
        T == storyData.tasks
        expected == (IF T # <<>> THEN <<LineBlank>> \o FormatTasks(T) ELSE <<>>)
                    \o <<LineBlank>> \o FormatNewTasks(newTasks)
    IN /\ Len(W) >= s - 1 + Len(expected)
       /\ SubSeq(W, 1, s - 1) = SubSeq(L, 1, s - 1)
       /\ SubSeq(W, s, s - 1 + Len(expected)) = expected
       /\ (s + Len(expected) <= Len(W)) => IsSectionHeading(W[s + Len(expected)])

\* scenario 2: task C appended to the document of scenario 1
C10_Witness ==
  /\ pc = "saved"
  /\ cmd = "add-tasks"
  /\ saveContent = Scenario1Doc
  /\ newTasks = <<NewTaskC>>
  /\ fs[saveFile] =
       Join(<<LineTitle, LineBlank, LineDesc, LineBlank, LineTasks, LineBlank,
              LineA, LineB, LineBlank, LineC>>)

\* the save re-read the text the second process had written
ReReadSawSecondProcess ==
  /\ saveFile # NoFile
  /\ Includes(saveContent, FormatNewTask(NewTaskE))

\* C11: there is no lock and no version check: when a second process has
\* rewritten the story file between the command's load and its save, the save
\* does not fail; it merges into the text it re-read and writes its own task
\* list as the checklist, and the task the second process added is gone from
\* the file.
C11_SaveOverwritesSecondProcess ==
  ReReadSawSecondProcess =>
    /\ pc \in {"reread", "saved"}
    /\ exitCode = 0
    /\ error = NoError
    /\ pc = "saved" =>
         /\ fs[saveFile] =
              IF cmd = "update-task"
              THEN MergeUpdate(saveContent, storyData.tasks)
              ELSE MergeAdd(saveContent, storyData.tasks, newTasks)
         /\ ~Includes(fs[saveFile], FormatNewTask(NewTaskE))

\* a lost update: the save has overwritten what the second process wrote
C11_Witness ==
  /\ pc = "saved"
  /\ ReReadSawSecondProcess
  /\ saveContent # storyContent
  /\ ~Includes(fs[saveFile], FormatNewTask(NewTaskE))

\* the command has awaited fetchStory
StoryCommand == cmd \in {"add-tasks", "update-task"}

\* C12: load takes the match of the earliest of user-stories, tasks, bugs that
\* has a file matching the id, whatever the later categories hold, and a
\* category directory that is missing is passed over without an error.
C12_EarliestCategoryWins ==
  StoryCommand =>
    LET k == FirstMatchingType(storyId)
    IN /\ storyFile # NoFile =>
            /\ k # 0
            /\ storyFile[1] = StoryTypes[k]
            /\ storyFile[2] \in MatchingFiles(StoryTypes[k], storyId)
       /\ (k # 0 /\ \A f \in MatchingFiles(StoryTypes[k], storyId) :
                      fs[<<StoryTypes[k], f>>] # <<>>) =>
            /\ storyFile # NoFile
            /\ error.kind # "story-not-found"

\* user-stories is missing, tasks and bugs both hold a match, tasks is taken
C12_Witness ==
  /\ pc = "loaded"
  /\ FilesIn("user-stories") = {}
  /\ MatchingFiles("tasks", storyId) # {}
  /\ MatchingFiles("bugs", storyId) # {}
  /\ storyFile[1] = "tasks"

\* the .md files of the three category directories, as id / title pairs
AllStoryFiles ==
  {[id |-> ListId(p[2]), title |-> TitleOf(fs[p])] :
     p \in {q \in DOMAIN fs :
              /\ \E k \in DOMAIN StoryTypes : q[1] = StoryTypes[k]
              /\ EndsWith(q[2], DotMd)}}

\* C13: when the story id matches no file in any category, the error load
\* fails with carries the id / title pairs of all .md story files.
C13_NotFoundListsStories ==
  (StoryCommand /\ FirstMatchingType(storyId) = 0 /\ pc = "failed") =>
    /\ error.kind = "story-not-found"
    /\ {error.available[k] : k \in DOMAIN error.available} = AllStoryFiles

\* every match of the first category that has one is denied to readFile: the
\* read of the match fails whatever the order readdir returns
FirstMatchUnreadable(id) ==
  /\ FirstMatchingType(id) # 0
  /\ \A f \in MatchingFiles(StoryTypes[FirstMatchingType(id)], id) :
       <<StoryTypes[FirstMatchingType(id)], f>> \in perm.unreadable

\* C14: when the scan finds a file matching the story id and reading it
\* fails, fetchStory fails with that IO error: it returns no match of a later
\* category and does not report the story as not found.
C14_ReadErrorPropagates ==
  (StoryCommand /\ FirstMatchUnreadable(storyId)) =>
    /\ pc = "failed"
    /\ error = AccessDenied
    /\ storyFile = NoFile

\* the entries of stories that come from the category directory type
EntriesOf(type) == {k \in DOMAIN stories : stories[k].file[1] = type}

\* readFile throws for a file of the category directory type
CategoryReadFails(type) == \E f \in FilesIn(type) : <<type, f>> \in perm.unreadable

\* every .md file of the category is listed exactly once
ListedInFull(type) ==
  \A f \in FilesIn(type) :
    EndsWith(f, DotMd) =>
      Cardinality({k \in DOMAIN stories : stories[k].file = <<type, f>>}) = 1

\* C15: a category in which a read fails during listStories contributes no
\* record at all, the other categories are listed in full, and no error is
\* raised.
C15_FailedCategoryIsEmpty ==
  (pc = "listed" /\ cmd = "list-stories") =>
    /\ error = NoError
    /\ exitCode = 0
    /\ \A k \in DOMAIN StoryTypes :
         IF CategoryReadFails(StoryTypes[k])
         THEN EntriesOf(StoryTypes[k]) = {}
         ELSE ListedInFull(StoryTypes[k])

\* C16: listStories raises nothing when a category directory is missing: the
\* missing category gives no record, and every .md file of every category
\* that exists is listed exactly once, with the title parsed from its text
\* and the status derived from its checklist.
C16_ListsEveryStoryOnce ==
  (pc = "listed" /\ cmd = "list-stories") =>
    /\ error = NoError
    /\ exitCode = 0
    /\ \A k \in DOMAIN StoryTypes :
         /\ FilesIn(StoryTypes[k]) = {} => EntriesOf(StoryTypes[k]) = {}
         /\ ListedInFull(StoryTypes[k])
    /\ \A i \in DOMAIN stories :
         /\ stories[i].file \in DOMAIN fs
         /\ stories[i].title = TitleOf(fs[stories[i].file])
         /\ stories[i].status =
              calculateStoryStatus(extractTasksFromContent(fs[stories[i].file]))

\* two stories listed while the user-stories directory is missing
C16_Witness ==
  /\ pc = "listed"
  /\ cmd = "list-stories"
  /\ FilesIn("user-stories") = {}
  /\ Len(stories) = 2
  /\ stories[1].file # stories[2].file

\* a failure the command has met: the id matches no file, the read of the
\* match was denied, or the write of the save was denied
FailureOccurred ==
  \/ FirstMatchingType(storyId) = 0
  \/ FirstMatchUnreadable(storyId)
  \/ saveFile # NoFile /\ saveFile \in perm.unwritable /\ pc # "reread"

\* C17: a failure in add-tasks or update-task (no file for the id, a read
\* error, a write error) aborts the command: the error reaches the catch that
\* prints it and exits with a non-zero status, so that nothing is retried and
\* no story file is written afterwards.
C17_FailureAborts ==
  (StoryCommand /\ FailureOccurred) =>
    /\ pc = "failed"
    /\ exitCode = 1
    /\ error # NoError

\* the story type the category directory stands for
TypeOfCategory(dir) ==
  CASE dir = "user-stories" -> "user-story"
    [] dir = "tasks" -> "task"
    [] dir = "bugs" -> "bug"
    [] OTHER -> ""

\* C18: the record fetchStory returns has a type in {"user-story", "task",
\* "bug"}, the one of the category directory its file was found in.
C18_TypeFromCategory ==
  (StoryCommand /\ storyFile # NoFile) =>
    /\ storyData.type \in {"user-story", "task", "bug"}
    /\ storyData.type = TypeOfCategory(storyFile[1])

\* the index of the first line of lines that is not blank, 0 when all are
FirstNonBlank(lines) ==
  IF \E i \in DOMAIN lines : Trim(lines[i]) # <<>>
  THEN CHOOSE i \in DOMAIN lines :
         Trim(lines[i]) # <<>> /\ \A j \in 1..(i - 1) : Trim(lines[j]) = <<>>
  ELSE 0

\* line without its leading run of # and the white space after it
RECURSIVE StripHashRun(_)
StripHashRun(line) ==
  IF line # <<>> /\ line[1] = "#"
  THEN StripHashRun(Tail(line))
  ELSE SubSeq(line, SkipWs(line, 1), Len(line))

\* the title of the parser contract: the first non-blank line, its leading
\* run of # stripped when it starts with one
ContractTitle(content) ==
  LET lines == Split(content)
  IN IF FirstNonBlank(lines) = 0
     THEN <<>>
     ELSE IF lines[FirstNonBlank(lines)][1] = "#"
          THEN StripHashRun(lines[FirstNonBlank(lines)])
          ELSE lines[FirstNonBlank(lines)]

\* C19: the title is the first non-blank line of the document with its whole
\* leading run of # stripped, for fetchStory, fetchFeature, listStories and
\* listFeatures alike.
C19_TitleIsFirstNonBlankLine ==
  /\ (StoryCommand /\ storyFile # NoFile) =>
       storyData.title = ContractTitle(storyContent)
  /\ pc = "feature" =>
       \E p \in DOMAIN fs : p[1] = FeaturesDir /\ feature.title = ContractTitle(fs[p])
  /\ (pc = "listed" /\ cmd = "list-stories") =>
       \A i \in DOMAIN stories :
         stories[i].title = ContractTitle(fs[stories[i].file])
  /\ (pc = "listed" /\ cmd = "list-features") =>
       \A i \in DOMAIN features :
         features[i].title = ContractTitle(fs[<<FeaturesDir, features[i].file>>])

\* empty, or only white space and newlines
IsBlankDocument(content) == \A i \in DOMAIN content : IsSpace(content[i])

\* every match of the first category that has one is a blank document
FirstMatchBlank(id) ==
  /\ FirstMatchingType(id) # 0
  /\ \A f \in MatchingFiles(StoryTypes[FirstMatchingType(id)], id) :
       IsBlankDocument(fs[<<StoryTypes[FirstMatchingType(id)], f>>])

\* C20: loading a record whose document is entirely blank succeeds with title
\* "" and description "" (for a story also no task and status todo); it is
\* never reported as a missing record.
C20_BlankDocumentLoads ==
  /\ (StoryCommand /\ FirstMatchBlank(storyId)) =>
       /\ error.kind # "story-not-found"
       /\ storyFile # NoFile
       /\ storyData.title = <<>>
       /\ storyData.description = <<>>
       /\ storyData.tasks = <<>>
       /\ storyData.status = "todo"
  /\ (cmd = "create-stories" /\ error = NoError
        /\ \A p \in DOMAIN fs : p[1] = FeaturesDir => IsBlankDocument(fs[p])) =>
       /\ pc = "feature"
       /\ feature.title = <<>>
       /\ feature.description = <<>>

\* C21: the labels of a loaded record are the caller's default followed by
\* the comma-separated entries of the document's Labels line, trimmed and in
\* written order, and the default alone when the document has no such line;
\* for a feature and for a story alike.
C21_LabelsFromDocument ==
  /\ pc = "feature" =>
       \E p \in DOMAIN fs :
         /\ p[1] = FeaturesDir
         /\ feature.labels = <<FeatureLabel>> \o ParsedLabels(fs[p])
  /\ (StoryCommand /\ storyFile # NoFile) =>
       /\ Len(storyData.labels) = 1 + Len(ParsedLabels(storyContent))
       /\ \A k \in 1..Len(ParsedLabels(storyContent)) :
            storyData.labels[k + 1] = ParsedLabels(storyContent)[k]

\* the indices of the lines that match the checklist grammar
TaskLineIndices(lines) == {i \in DOMAIN lines : TaskMatch(lines[i]).ok}

\* the index of the k-th line that matches the checklist grammar
TaskLineIndex(lines, k) ==
  CHOOSE i \in TaskLineIndices(lines) :
    Cardinality({j \in TaskLineIndices(lines) : j < i}) = k - 1

\* C22: decode takes every line of the document that matches the checklist
\* grammar, inside or outside the Tasks section, and the k-th such line in
\* document order becomes the task with id k: the ids are 1, 2, ..., n.
C22_DecodeEveryLineInOrder ==
  (StoryCommand /\ storyFile # NoFile) =>
    LET lines == Split(storyContent)
    IN /\ Len(storyData.tasks) = Cardinality(TaskLineIndices(lines))
       /\ \A k \in DOMAIN storyData.tasks : storyData.tasks[k].id = NatToStr(k)
       /\ pc = "loaded" =>
            \A k \in DOMAIN storyData.tasks :
              LET m == TaskMatch(lines[TaskLineIndex(lines, k)])
              IN /\ storyData.tasks[k].description = StripPr(m.text)
                 /\ storyData.tasks[k].completed = (Lower(m.check) = "x")

\* three tasks decoded, the first from a line above the Tasks heading and the
\* last from a line below the next section heading
C22_Witness ==
  /\ pc = "loaded"
  /\ Len(storyData.tasks) = 3
  /\ HasTasksHeading(storyContent)
  /\ LET lines == Split(storyContent)
     IN /\ TaskLineIndex(lines, 1) < TasksHeadingIndex(lines)
        /\ TaskLineIndex(lines, 3) > NextSectionIndex(lines, TasksHeadingIndex(lines))

\* position of the (#digits) that ends s, 0 when s does not end with one
TrailingPrPos(s) ==
  IF \E p \in 1..Len(s) : PrAt(s, p) /\ SkipDigits(s, p + 2) = Len(s)
  THEN CHOOSE p \in 1..Len(s) : PrAt(s, p) /\ SkipDigits(s, p + 2) = Len(s)
  ELSE 0

\* C23: decode sets completed exactly for an x or X box, takes prNumber only
\* from a (#digits) that ends the checklist text, and returns the text without
\* that trailing suffix as description; a (#digits) elsewhere in the text
\* stays in the description and gives no prNumber.
C23_PrNumberOnlyAtEnd ==
  (StoryCommand /\ storyFile # NoFile /\ pc = "loaded") =>
    LET lines == Split(storyContent)
    IN \A k \in DOMAIN storyData.tasks :
         LET m == TaskMatch(lines[TaskLineIndex(lines, k)])
             p == TrailingPrPos(m.text)
             task == storyData.tasks[k]
         IN /\ task.completed = (m.check \in {"x", "X"})
            /\ IF p # 0
               THEN /\ task.prNumber =
                         ParseInt(SubSeq(m.text, p + 2, Len(m.text) - 1))
                    /\ task.description = Trim(SubSeq(m.text, 1, p - 1))
               ELSE /\ task.prNumber = Undefined
                    /\ task.description = Trim(m.text)

\* the lines the command of the current invocation pushes under the heading
SavedBlock ==
  IF cmd = "update-task"
  THEN UpdateBlock(storyData.tasks)
  ELSE AddBlock(storyData.tasks, newTasks)

\* the line after the first Tasks heading of the re-read text holds the
\* marker phrase
NoteUnderHeading ==
  /\ HasTasksHeading(saveContent)
  /\ LET L == Split(saveContent)
         h == TasksHeadingIndex(L)
     IN h + 1 <= Len(L) /\ Includes(L[h + 1], Marker)

\* C24: when the line immediately after the Tasks heading contains the
\* marker phrase, the written text has the text up to the heading, the note
\* line verbatim directly under it, then the regenerated checklist; what
\* follows the checklist is nothing or a ## line, so no line of the old run
\* of checklist and blank lines is kept.
C24_NoteKeptRunReplaced ==
  (pc = "saved" /\ NoteUnderHeading) =>
    LET L == Split(saveContent)
        W == Split(fs[saveFile])
        h == TasksHeadingIndex(L)
        block == SavedBlock
        n == h + 1 + Len(block)
    IN /\ Len(W) >= n
       /\ SubSeq(W, 1, h + 1) = SubSeq(L, 1, h + 1)
       /\ SubSeq(W, h + 2, n) = block
       /\ (n + 1 <= Len(W)) => IsSectionHeading(W[n + 1])

\* a save into a text whose note is followed by a checklist line
C24_Witness ==
  /\ pc = "saved"
  /\ NoteUnderHeading
  /\ LET L == Split(saveContent)
         h == TasksHeadingIndex(L)
     IN h + 2 <= Len(L) /\ IsDashBracket(L[h + 2])

\* C25: within one invocation of add-tasks or update-task the steps follow
\* one another in the order load, re-read, merge and write: a load starts the
\* invocation and decodes the text it read, the change is made on the loaded
\* record, the re-read follows the change and takes the text of the backing
\* file, the write follows the re-read and stores the merge of the re-read
\* text; the file system changes in no other step and no step follows the
\* write, so the story file is written at most once.
C25_StepOrder ==
  [][/\ (pc' = "loaded") =>
          /\ pc = "start"
          /\ storyContent' = fs[storyFile']
          /\ storyData'.tasks = extractTasksFromContent(storyContent')
     /\ (pc' \in {"updated", "entered"}) => pc = "loaded"
     /\ (pc' = "reread") =>
          /\ pc \in {"updated", "entered"}
          /\ saveContent' = fs[saveFile']
     /\ (pc' = "saved") =>
          /\ pc = "reread"
          /\ fs' = [fs EXCEPT ![saveFile] =
                      Join(MergeFrom(Split(saveContent), 1, FALSE, SavedBlock))]
     /\ (fs' # fs) => (pc = "reread" /\ pc' = "saved")
     /\ pc # "saved"]_vars

\* an invocation that went through every step and changed the file
C25_Witness ==
  /\ pc = "saved"
  /\ StoryCommand
  /\ saveFile = storyFile
  /\ fs[saveFile] # saveContent

\* the abstract list after the invocation: the loaded list with the edit of
\* update-task applied, or with the new tasks of add-tasks appended under
\* the next ids and without a pull request number
AbstractTasks ==
  IF cmd = "update-task"
  THEN storyData.tasks
  ELSE storyData.tasks
       \o [k \in 1..Len(newTasks) |->
             [id |-> NatToStr(Len(storyData.tasks) + k),
              description |-> newTasks[k].description,
              completed |-> newTasks[k].completed,
              prNumber |-> Undefined]]

\* C26: after an edit of update-task or an append of add-tasks is saved into
\* the file the story was loaded from, the list the next load decodes from
\* that file equals the abstract list (the loaded list with the edit applied
\* to one task, or with the new tasks appended): nothing lost, duplicated or
\* reordered.
C26_RefinesAbstractList ==
  (pc = "saved" /\ saveFile = storyFile) =>
    /\ extractTasksFromContent(fs[saveFile]) = AbstractTasks
    /\ (cmd = "update-task") =>
         LET T0 == extractTasksFromContent(storyContent)
         IN /\ Len(storyData.tasks) = Len(T0)
            /\ \E k \in DOMAIN T0 :
                 \A j \in DOMAIN T0 \ {k} : storyData.tasks[j] = T0[j]

\* C27: the paths that end without a change (update-task on a story without
\* tasks, with a task id that matches no task, or cancelled; add-tasks
\* declined or given no new task) write nothing: neither the load nor the
\* step that ends the invocation changes any file.
C27_NoChangePathsWriteNothing ==
  [][/\ (pc' = "loaded") => fs' = fs
     /\ (pc' = "done") => (pc = "loaded" /\ fs' = fs)]_vars

\* update-task that found the task and was cancelled, or was given an id
\* that matches no task: the file holds the text that was loaded
C27_Witness ==
  /\ pc = "done"
  /\ cmd = "update-task"
  /\ Len(storyData.tasks) > 0
  /\ fs[storyFile] = storyContent

\* task lists that do not come from the document they are merged into
FixedTaskLists == {extractTasksFromContent(Scenario1Doc), <<>>}

\* C28: the merge of update-task is idempotent for a fixed task list: for the
\* document d the save re-read and a task list T (the list being saved, or
\* one decoded from another document), merging T into the merge of T into d
\* gives the text of the first merge.
C28_MergeIdempotent ==
  (pc = "saved" /\ cmd = "update-task") =>
    \A T \in FixedTaskLists \cup {storyData.tasks} :
      LET merged == MergeUpdate(saveContent, T)
      IN MergeUpdate(merged, T) = merged

\* a save whose first merge changed the document
C28_Witness ==
  /\ pc = "saved"
  /\ cmd = "update-task"
  /\ HasTasksHeading(saveContent)
  /\ MergeUpdate(saveContent, storyData.tasks) # saveContent
  /\ fs[saveFile] = MergeUpdate(saveContent, storyData.tasks)

\* C29: the status and the completed/total counts update-task prints after a
\* save are the ones the next load derives from the file it has written.
C29_PrintedMatchesNextLoad ==
  (pc = "saved" /\ cmd = "update-task") =>
    LET T == extractTasksFromContent(fs[saveFile])
    IN /\ printed.total = Len(T)
       /\ printed.completed = CompletedCount(T)
       /\ printed.status = calculateStoryStatus(T)

\* the files of the directory named <n>.md with n a decimal number
NumericPrFiles(dir) ==
  {f \in DOMAIN dir :
     /\ EndsWith(f, DotMd)
     /\ Len(f) > Len(DotMd)
     /\ \A i \in 1..(Len(f) - Len(DotMd)) : IsDigit(f[i])}

\* the number in the name of such a file
NumberOfName(f) == ParseInt(SubSeq(f, 1, Len(f) - Len(DotMd)))

\* the .md files of the directory whose name starts with a digit
NumberedPrFiles(dir) ==
  {f \in DOMAIN dir : EndsWith(f, DotMd) /\ IsDigit(f[1])}

\* the number a name starts with
LeadingNumberOfName(f) ==
  ParseInt(SubSeq(f, 1, CHOOSE n \in 1..Len(f) :
                          /\ \A i \in 1..n : IsDigit(f[i])
                          /\ ~IsDigit(f[n + 1])))

\* a call has created the file named after the number it returned, and has
\* left every file that was there as it was
CreatedExactlyOne ==
  LET name == NatToStr(nextNumber') \o DotMd
  IN /\ name \notin DOMAIN pulls
     /\ DOMAIN pulls' = DOMAIN pulls \cup {name}
     /\ \A f \in DOMAIN pulls : pulls'[f] = pulls[f]

====
